---- MODULE Spec2Model ----
(***************************************************************************)
(* The resilient network-retrieval layer of airgap/scripts/utils.py:       *)
(* urlopen_with_retry (the Connector) and urlretrieve_with_retry (the      *)
(* Fetcher), as one sequential state machine.  The transport (urllib), the *)
(* remote server and the file system are the environment: each connection  *)
(* attempt nondeterministically fails with an exception class or yields a  *)
(* response with a Content-Length header value and a delivered body.       *)
(*                                                                         *)
(* Python strings that the code inspects (the destination name, the        *)
(* Content-Length header) are sequences of one-character strings, so that  *)
(* endswith() and int() are computed, not assumed.                         *)
(***************************************************************************)
EXTENDS Integers, Sequences, FiniteSets, TLC

VARIABLES
  fn,              \* the primitive being executed: "none", "urlopen", "urlretrieve"
  pc,              \* position inside the primitive
  max_retries,     \* parameter max_retries
  attempt,         \* loop variable of  for attempt in range(1, max_retries + 1)
  filename,        \* parameter filename of urlretrieve_with_retry
  response,        \* the response handle of the current attempt
  expected_size,   \* local expected_size
  downloaded_size, \* local downloaded_size
  fs,              \* the file at the destination path
  f_open,          \* the destination file object f is open for writing
  error,           \* the exception raised inside the current/last attempt
  raised,          \* the exception that left the primitive
  result,          \* the value returned by the primitive
  sleeps,          \* the arguments of the time.sleep calls of this call, in order
  printed,         \* the lines printed by this call, in order
  attempts_made,   \* loop iterations begun by this call
  fs0,             \* the file at the destination path when this call was entered
  log_failed,      \* a write of the debug trace has failed during this call
  script,          \* the artifact script that is running, "none" without one
  spc,             \* position inside the script
  held,            \* response handles the script received and that are open
  calls,           \* the calls of urlretrieve_with_retry the script has made
  outcomes,        \* how each of these calls ended: attempts made, error raised
  first_error,     \* download_extension: e of  except IOError as e
  reported,        \* the exception that reached the handlers ending the script
  waits,           \* arguments of the script's own calls of time.sleep
  artifact,        \* the primary artifact as downloaded
  release,         \* what the script took from the release metadata
  sidecar,         \* the checksum sidecar <artifact>.sha256
  exit_status      \* exit status of the run, read when spc = "exited"

vars == <<fn, pc, max_retries, attempt, filename, response, expected_size,
          downloaded_size, fs, f_open, error, raised, result, sleeps, printed,
          attempts_made, fs0, log_failed, script, spc, held, calls, outcomes,
          first_error, reported, waits, artifact, release, sidecar,
          exit_status>>

\* The state of an artifact script.
svars == <<script, spc, held, calls, outcomes, first_error, reported, waits, artifact,
           release, sidecar, exit_status>>

\* What the steps inside a primitive leave alone.
frame == <<fs0, svars>>

-----------------------------------------------------------------------------
(* Bounds and program constants *)

MaxRetries == 4

ChunkSize == 8192

-----------------------------------------------------------------------------
(* Python values *)

NonePy == [t |-> "None", s |-> <<>>, v |-> 0]

StrPy(s) == [t |-> "str", s |-> s, v |-> 0]

IntPy(n) == [t |-> "int", s |-> <<>>, v |-> n]

\* Python truthiness of None, a str or an int.
Truthy(x) ==
  CASE x.t = "None" -> FALSE
    [] x.t = "str" -> x.s # <<>>
    [] x.t = "int" -> x.v # 0

DigitVal ==
  [c \in {"0", "1", "2", "3", "4", "5", "6", "7", "8", "9"} |->
     CASE c = "0" -> 0 [] c = "1" -> 1 [] c = "2" -> 2 [] c = "3" -> 3
       [] c = "4" -> 4 [] c = "5" -> 5 [] c = "6" -> 6 [] c = "7" -> 7
       [] c = "8" -> 8 [] c = "9" -> 9]

\* int(s) accepts s: a non-empty string of decimal digits.
IsNumeric(s) == s # <<>> /\ \A i \in 1..Len(s) : s[i] \in DOMAIN DigitVal

RECURSIVE ParseInt(_)
ParseInt(s) ==
  IF s = <<>> THEN 0
  ELSE 10 * ParseInt(SubSeq(s, 1, Len(s) - 1)) + DigitVal[s[Len(s)]]

\* str.endswith
EndsWith(s, suffix) ==
  /\ Len(s) >= Len(suffix)
  /\ SubSeq(s, Len(s) - Len(suffix) + 1, Len(s)) = suffix

Min(a, b) == IF a <= b THEN a ELSE b

-----------------------------------------------------------------------------
(* Exceptions *)

\* The base class of each exception class the transport, the file system and
\* the code raise (IOError is the same class as OSError).
Parent ==
  [c \in {"URLError", "TimeoutError", "PermissionError", "OSError",
          "ValueError", "TypeError", "HTTPException", "BadZipFile",
          "ZlibError",
          "Exception"} |->
     CASE c \in {"URLError", "TimeoutError", "PermissionError"} -> "OSError"
       [] c \in {"OSError", "ValueError", "TypeError", "HTTPException",
                 "BadZipFile", "ZlibError"} -> "Exception"
       [] c = "Exception" -> "BaseException"]

ClassOf(name) == IF name = "IOError" THEN "OSError" ELSE name

RECURSIVE IsSubclass(_, _)
IsSubclass(c, base) ==
  \/ c = ClassOf(base)
  \/ c \in DOMAIN Parent /\ IsSubclass(Parent[c], base)

\* except (<classes>) as e
Caught(c, classes) == \E b \in classes : IsSubclass(c, b)

NoError == [cls |-> "none", msg |-> "", at |-> 0, where |-> "none"]

Exc(c, m, w) == [cls |-> c, msg |-> m, at |-> attempt, where |-> w]

\* Mutant: every exception is retried.
ConnectorCatchesAll == {"Exception"}

\* The clause  except (urllib.error.URLError, TimeoutError, OSError)
ConnectorCatches == {"URLError", "TimeoutError", "OSError"}

\* Mutant: every exception is retried.
FetcherCatchesAll == {"Exception"}

\* The clause  except (urllib.error.URLError, TimeoutError, OSError, IOError)
FetcherCatches == {"URLError", "TimeoutError", "OSError", "IOError"}

\* What a connection attempt can raise: a network error, a timeout, a generic
\* I/O error, a value error (malformed URL), a protocol exception of the
\* HTTP client.
ConnectErrors == {"URLError", "TimeoutError", "OSError", "ValueError", "HTTPException"}

\* What reading the body can raise.
ReadErrors == {"TimeoutError", "HTTPException"}

-----------------------------------------------------------------------------
(* The debug trace *)

\* How the write of a debug record inside log_debug can end: written, an I/O
\* error (the directory or the file cannot be made, opened or written), a
\* type error (the record cannot be serialised).
LogWriteOutcomes == {"ok", "OSError", "TypeError"}

\* Mutant: log_debug guards against I/O errors only.
LogDebugGuardsOSError(w) == IF w = "ok" \/ Caught(w, {"OSError"}) THEN "none" ELSE w

\* log_debug: try: ... except Exception: pass.  The class of the exception
\* that leaves it; "none" when none does.
LogDebug(w) == IF w = "ok" \/ Caught(w, {"Exception"}) THEN "none" ELSE w

-----------------------------------------------------------------------------
(* Retry policy *)

\* Mutant: the loop makes one iteration more than max_retries.
InRangeOneMore(a, n) == 1 <= a /\ a <= n + 1

\* for attempt in range(1, max_retries + 1)
InRange(a, n) == 1 <= a /\ a <= n

\* len(range(1, max_retries + 1)): the iterations the loop can make
Budget(n) == IF n > 0 THEN n ELSE 0

\* Mutant: a failed attempt does not use up an iteration.
NextAttemptSame(a) == a

\* the step of  for attempt in range(1, max_retries + 1)
NextAttempt(a) == a + 1

\* Mutant: the last attempt is retried as well.
MoreAttemptsAlways(a, n) == a <= n

\* if attempt < max_retries
MoreAttempts(a, n) == a < n

\* Mutant: a linear backoff.
BackoffLinear(a) == 2 * a

\* wait_time = 2 ** attempt
Backoff(a) == 2 ^ a

\* Mutant: a summary error raised in place of the caught one.
RaiseSummary(e) == [e EXCEPT !.cls = "RuntimeError", !.msg = "all attempts failed"]

\* the bare  raise  of the except clause
Reraise(e) == e

RetryLines(a, w) ==
  << [line |-> "attempt failed, retrying", attempt |-> a, wait |-> w],
     [line |-> "URL", attempt |-> a, wait |-> w] >>

ExhaustedLines(n) ==
  << [line |-> "ERROR: all attempts failed", attempt |-> n, wait |-> 0],
     [line |-> "ERROR: last error", attempt |-> n, wait |-> 0] >>

-----------------------------------------------------------------------------
(* Responses and files *)

NoResponse == [open |-> FALSE, cl |-> NonePy, body |-> [size |-> 0, kind |-> "none"]]

Str200 == <<"2", "0", "0">>
Str500 == <<"5", "0", "0">>
Str1000 == <<"1", "0", "0", "0">>
Str10000 == <<"1", "0", "0", "0", "0">>

\* response.headers.get('Content-Length'): None when the header is absent,
\* otherwise its text.
Headers ==
  {NonePy, StrPy(<<>>), StrPy(<<"0">>), StrPy(Str200), StrPy(Str500),
   StrPy(Str1000), StrPy(Str10000), StrPy(<<"1", "k">>)}

\* The bytes a response delivers before its stream ends: how many, and what
\* they are as a whole (arbitrary data, an HTML page, a ZIP archive whose
\* members are sound, a ZIP archive with a member whose checksum is wrong, a
\* ZIP archive with a member whose compressed stream cannot be decoded).
Bodies ==
  { [size |-> 0, kind |-> "data"],
    [size |-> 200, kind |-> "html"],
    [size |-> 480, kind |-> "data"],
    [size |-> 1000, kind |-> "data"],
    [size |-> 1000, kind |-> "zip_ok"],
    [size |-> 1000, kind |-> "zip_corrupt"],
    [size |-> 1000, kind |-> "zip_garbled"],
    [size |-> 10000, kind |-> "zip_ok"] }

NoFile == [exists |-> FALSE, body |-> [size |-> 0, kind |-> "none"], written |-> 0]

\* Mutant: the destination is opened for appending.
OpenAppend(b) ==
  IF fs.exists
  THEN [exists |-> TRUE,
        body |-> [size |-> fs.written + b.size, kind |-> "appended"],
        written |-> fs.written]
  ELSE [exists |-> TRUE, body |-> b, written |-> 0]

\* open(filename, 'wb'): the file exists and is empty; what is written to it
\* are the first bytes of body b.
Truncated(b) == [exists |-> TRUE, body |-> b, written |-> 0]

\* The file holds all the bytes of the body it was written from.
Complete(file) == file.exists /\ file.written = file.body.size

\* zipfile.ZipFile(filename, 'r') does not raise BadZipFile: the end-of-central-
\* directory record closes the archive, so a proper prefix of one has none.
ZipOpens(file) ==
  /\ Complete(file)
  /\ file.body.kind \in {"zip_ok", "zip_corrupt", "zip_garbled"}

\* zf.testzip(): the name of the first corrupt member, or None.
TestZip(file) == IF file.body.kind = "zip_corrupt" THEN StrPy(<<"m">>) ELSE NonePy

\* zf.testzip() reads every member and turns BadZipFile (a wrong checksum, a
\* bad member header) into its return value; an error of the decompressor is
\* zlib.error, which it lets through.  The class raised, "none" without one.
TestZipRaises(file) == IF file.body.kind = "zip_garbled" THEN "ZlibError" ELSE "none"

\* Mutant: a corrupt member reported by the member test fails the check.
ZipCheckRejectsCorrupt(file) == ZipOpens(file) /\ TestZip(file) = NonePy

\* The try block ends without BadZipFile: the archive opened; the value
\* zf.testzip() returned is dropped.
ZipCheckPasses(file) == ZipOpens(file)

NameVsix == <<"p", ".", "v", "s", "i", "x">>
NameZip == <<"p", ".", "z", "i", "p">>
NameTgz == <<"p", ".", "t", "g", "z">>

Filenames == {NameVsix, NameZip, NameTgz}

\* Mutant: the .vsix suffix is forgotten.
NeedsZipCheckZipOnly(name) == EndsWith(name, <<".", "z", "i", "p">>)

\* if filename.endswith('.vsix') or filename.endswith('.zip')
NeedsZipCheck(name) ==
  EndsWith(name, <<".", "v", "s", "i", "x">>) \/ EndsWith(name, <<".", "z", "i", "p">>)

\* Mutant: the size check is skipped when nothing was downloaded.
SizeMismatchNonZero(expected, downloaded) ==
  Truthy(expected) /\ downloaded # 0 /\ (expected.t # "int" \/ downloaded # expected.v)

\* Mutant: the size check is dropped.
SizeMismatchNever(expected, downloaded) == FALSE

\* if expected_size and downloaded_size != expected_size
SizeMismatch(expected, downloaded) ==
  Truthy(expected) /\ (expected.t # "int" \/ downloaded # expected.v)

\* Mutant: the emptiness check is dropped.
IsEmptyNever(downloaded) == FALSE

\* if downloaded_size == 0
IsEmpty(downloaded) == downloaded = 0

\* Mutant: only a file the failed attempt opened is removed.
RemoveOwnFile(file) ==
  IF file.exists /\ error.where \notin {"connect", "headers", "open"} THEN NoFile ELSE file

\* Mutant: the file of the failed attempt is kept.
KeepFile(file) == file

\* if os.path.exists(filename): os.remove(filename)
RemoveIfExists(file) == IF file.exists THEN NoFile ELSE file

\* return
ReturnValue(downloaded, expected, name) == NonePy

MsgIncomplete == "Download incomplete"
MsgEmpty == "Downloaded file is empty"
MsgNotZip == "Downloaded file is not a valid ZIP archive"

\* no <artifact>.sha256 has been written
NoSidecar == [exists |-> FALSE, digest |-> NonePy, name |-> <<>>]

-----------------------------------------------------------------------------
(* Initial state: no call in progress, nothing at the destination path *)

Init ==
  /\ fn = "none"
  /\ pc = "idle"
  /\ max_retries = 0
  /\ attempt = 0
  /\ filename = <<>>
  /\ response = NoResponse
  /\ expected_size = NonePy
  /\ downloaded_size = 0
  /\ fs = NoFile
  /\ f_open = FALSE
  /\ error = NoError
  /\ raised = NoError
  /\ result = NonePy
  /\ sleeps = <<>>
  /\ printed = <<>>
  /\ attempts_made = 0
  /\ fs0 = NoFile
  /\ log_failed = FALSE
  /\ script = "none"
  /\ spc = "idle"
  /\ held = {}
  /\ calls = <<>>
  /\ outcomes = <<>>
  /\ first_error = NoError
  /\ reported = NoError
  /\ waits = <<>>
  /\ artifact = NoFile
  /\ release = [checksums |-> FALSE, listing |-> <<>>]
  /\ sidecar = NoSidecar
  /\ exit_status = 0

\* One or more calls of log_debug in a step, whose writes end in w.
Logged(w) == log_failed' = (log_failed \/ w # "ok")

\* An exception leaves log_debug and, through it, the primitive (inside the
\* try block the except clause would call log_debug again, which fails alike).
LogRaise(w) ==
  /\ error' = Exc(LogDebug(w), "log_debug failed", "log")
  /\ raised' = Exc(LogDebug(w), "log_debug failed", "log")
  /\ pc' = "raised"
  /\ UNCHANGED <<printed, sleeps>>

\* Entering either primitive: the entry record is logged, then the loop starts
\* at attempt 1, or is empty.
Enter(name, n) ==
  /\ fn = "none"
  /\ fn' = name
  /\ max_retries' = n
  /\ attempt' = 1
  /\ response' = NoResponse
  /\ expected_size' = NonePy
  /\ downloaded_size' = 0
  /\ f_open' = FALSE
  /\ result' = NonePy
  /\ attempts_made' = 0
  /\ fs0' = fs
  /\ \E w \in LogWriteOutcomes :
       /\ log_failed' = (w # "ok")
       /\ IF LogDebug(w) # "none"
          THEN /\ error' = Exc(LogDebug(w), "log_debug failed", "log")
               /\ raised' = Exc(LogDebug(w), "log_debug failed", "log")
               /\ pc' = "raised"
          ELSE /\ error' = NoError
               /\ raised' = NoError
               /\ pc' = IF InRange(1, n) THEN "attempt" ELSE "returned"
  /\ sleeps' = <<>>
  /\ printed' = <<>>

-----------------------------------------------------------------------------
(* urlopen_with_retry *)

o_Call(n) ==
  /\ Enter("urlopen", n)
  /\ UNCHANGED <<filename, fs, svars>>

\* The except clause of urlopen_with_retry, entered with exception e.
o_except(e) ==
  \E w \in LogWriteOutcomes :
    /\ Logged(w)
    /\ IF LogDebug(w) # "none"
       THEN LogRaise(w)
       ELSE /\ error' = e
            /\ IF Caught(e.cls, ConnectorCatches)
               THEN IF MoreAttempts(attempt, max_retries)
                    THEN /\ printed' = printed \o RetryLines(attempt, Backoff(attempt))
                         /\ sleeps' = Append(sleeps, Backoff(attempt))
                         /\ pc' = "sleep"
                         /\ UNCHANGED raised
                    ELSE /\ printed' = printed \o ExhaustedLines(max_retries)
                         /\ raised' = Reraise(e)
                         /\ pc' = "raised"
                         /\ UNCHANGED sleeps
               ELSE /\ raised' = e
                    /\ pc' = "raised"
                    /\ UNCHANGED <<printed, sleeps>>

\* One iteration of the loop: build the request, open the connection.
o_Attempt ==
  /\ fn = "urlopen"
  /\ UNCHANGED frame
  /\ pc = "attempt"
  /\ attempts_made' = attempts_made + 1
  /\ \/ \E w \in LogWriteOutcomes :
          /\ Logged(w)
          /\ IF LogDebug(w) # "none"
             THEN /\ LogRaise(w)
                  /\ UNCHANGED <<response, result>>
             ELSE /\ response' = [open |-> TRUE, cl |-> NonePy,
                                  body |-> [size |-> 0, kind |-> "none"]]
                  /\ result' = [t |-> "response", s |-> <<>>, v |-> attempt]
                  /\ pc' = "returned"
                  /\ error' = NoError
                  /\ UNCHANGED <<raised, sleeps, printed>>
     \/ \E c \in ConnectErrors :
          /\ o_except(Exc(c, "connection failed", "connect"))
          /\ UNCHANGED <<response, result>>
  /\ UNCHANGED <<fn, max_retries, attempt, filename, expected_size,
                 downloaded_size, fs, f_open>>

\* time.sleep(wait_time) returns; the loop goes on to its next iteration.
o_Wake ==
  /\ fn = "urlopen"
  /\ UNCHANGED frame
  /\ pc = "sleep"
  /\ attempt' = NextAttempt(attempt)
  /\ pc' = IF InRange(NextAttempt(attempt), max_retries) THEN "attempt" ELSE "returned"
  /\ UNCHANGED <<fn, max_retries, filename, response, expected_size,
                 downloaded_size, fs, f_open, error, raised, result, sleeps,
                 printed, attempts_made, log_failed>>

-----------------------------------------------------------------------------
(* urlretrieve_with_retry *)

r_Call(name, n) ==
  /\ Enter("urlretrieve", n)
  /\ filename' = name
  /\ UNCHANGED <<fs, svars>>

\* The except clause of urlretrieve_with_retry, entered with exception e,
\* up to and including the call of time.sleep.
r_except(e) ==
  \E w \in LogWriteOutcomes :
    /\ Logged(w)
    /\ IF LogDebug(w) # "none"
       THEN LogRaise(w)
       ELSE /\ error' = e
            /\ IF Caught(e.cls, FetcherCatches)
               THEN IF MoreAttempts(attempt, max_retries)
                    THEN /\ printed' = printed \o RetryLines(attempt, Backoff(attempt))
                         /\ sleeps' = Append(sleeps, Backoff(attempt))
                         /\ pc' = "sleep"
                         /\ UNCHANGED raised
                    ELSE /\ printed' = printed \o ExhaustedLines(max_retries)
                         /\ raised' = Reraise(e)
                         /\ pc' = "raised"
                         /\ UNCHANGED sleeps
               ELSE /\ raised' = e
                    /\ pc' = "raised"
                    /\ UNCHANGED <<printed, sleeps>>

\* Mutant: the handle is not closed.
LeftOpen(r) == r

\* Leaving  with urllib.request.urlopen(...) as response  closes the handle.
Closed(r) == [r EXCEPT !.open = FALSE]

\* return  at the end of a successful attempt
r_return ==
  /\ result' = ReturnValue(downloaded_size, expected_size, filename)
  /\ pc' = "returned"
  /\ response' = Closed(response)
  /\ UNCHANGED <<error, raised, sleeps, printed>>

\* Build the request and open the connection.
r_Connect ==
  /\ fn = "urlretrieve"
  /\ UNCHANGED frame
  /\ pc = "attempt"
  /\ attempts_made' = attempts_made + 1
  /\ \/ \E cl \in Headers, b \in Bodies :
          /\ response' = [open |-> TRUE, cl |-> cl, body |-> b]
          /\ pc' = "headers"
          /\ error' = NoError
          /\ UNCHANGED <<raised, sleeps, printed, log_failed>>
     \/ \E c \in ConnectErrors :
          /\ r_except(Exc(c, "connection failed", "connect"))
          /\ UNCHANGED response
  /\ UNCHANGED <<fn, max_retries, attempt, filename, expected_size,
                 downloaded_size, fs, f_open, result>>

\* expected_size = response.headers.get('Content-Length'); the headers are
\* logged; if expected_size: expected_size = int(expected_size);
\* downloaded_size = 0
r_Headers ==
  /\ fn = "urlretrieve"
  /\ UNCHANGED frame
  /\ pc = "headers"
  /\ \E w \in LogWriteOutcomes :
       /\ Logged(w)
       /\ IF LogDebug(w) # "none"
          THEN /\ LogRaise(w)
               /\ response' = Closed(response)
               /\ UNCHANGED <<expected_size, downloaded_size>>
          ELSE IF Truthy(response.cl)
               THEN IF IsNumeric(response.cl.s)
                    THEN /\ expected_size' = IntPy(ParseInt(response.cl.s))
                         /\ downloaded_size' = 0
                         /\ pc' = "open"
                         /\ UNCHANGED <<response, error, raised, sleeps, printed>>
                    ELSE /\ r_except(Exc("ValueError", "invalid literal for int()", "headers"))
                         /\ response' = Closed(response)
                         /\ UNCHANGED <<expected_size, downloaded_size>>
               ELSE /\ expected_size' = response.cl
                    /\ downloaded_size' = 0
                    /\ pc' = "open"
                    /\ UNCHANGED <<response, error, raised, sleeps, printed>>
  /\ UNCHANGED <<fn, max_retries, attempt, filename, fs, f_open, result,
                 attempts_made>>

\* with open(filename, 'wb') as f
r_OpenFile ==
  /\ fn = "urlretrieve"
  /\ UNCHANGED frame
  /\ pc = "open"
  /\ \/ /\ fs' = Truncated(response.body)
        /\ f_open' = TRUE
        /\ pc' = "stream"
        /\ UNCHANGED <<response, error, raised, sleeps, printed, log_failed>>
     \/ /\ r_except(Exc("PermissionError", "Permission denied", "open"))
        /\ response' = Closed(response)
        /\ UNCHANGED <<fs, f_open>>
  /\ UNCHANGED <<fn, max_retries, attempt, filename, expected_size,
                 downloaded_size, result, attempts_made>>

\* chunk = response.read(8192); if not chunk: break; f.write(chunk);
\* downloaded_size += len(chunk)
r_Read ==
  /\ fn = "urlretrieve"
  /\ UNCHANGED frame
  /\ pc = "stream"
  /\ \/ LET chunk == Min(ChunkSize, response.body.size - downloaded_size) IN
          IF chunk = 0
          THEN /\ f_open' = FALSE
               /\ pc' = "verify"
               /\ UNCHANGED <<fs, downloaded_size, response, error, raised,
                              sleeps, printed, log_failed>>
          ELSE /\ fs' = [fs EXCEPT !.written = @ + chunk]
               /\ downloaded_size' = downloaded_size + chunk
               /\ UNCHANGED <<pc, f_open, response, error, raised, sleeps,
                              printed, log_failed>>
     \/ \E c \in ReadErrors :
          /\ r_except(Exc(c, "read failed", "read"))
          /\ f_open' = FALSE
          /\ response' = Closed(response)
          /\ UNCHANGED <<fs, downloaded_size>>
  /\ UNCHANGED <<fn, max_retries, attempt, filename, expected_size, result,
                 attempts_made>>

\* The completion is logged; the size check, the emptiness check, and the
\* choice of the archive check.
r_Verify ==
  /\ fn = "urlretrieve"
  /\ UNCHANGED frame
  /\ pc = "verify"
  /\ \E w \in LogWriteOutcomes :
       /\ Logged(w)
       /\ IF LogDebug(w) # "none"
          THEN /\ LogRaise(w)
               /\ response' = Closed(response)
               /\ UNCHANGED result
          ELSE IF SizeMismatch(expected_size, downloaded_size)
               THEN /\ r_except(Exc("OSError", MsgIncomplete, "verify"))
                    /\ response' = Closed(response)
                    /\ UNCHANGED result
               ELSE IF IsEmpty(downloaded_size)
                    THEN /\ r_except(Exc("OSError", MsgEmpty, "verify"))
                         /\ response' = Closed(response)
                         /\ UNCHANGED result
                    ELSE IF NeedsZipCheck(filename)
                         THEN /\ pc' = "zipcheck"
                              /\ UNCHANGED <<response, result, error, raised,
                                             sleeps, printed>>
                         ELSE r_return
  /\ UNCHANGED <<fn, max_retries, attempt, filename, expected_size,
                 downloaded_size, fs, f_open, attempts_made>>

\* with zipfile.ZipFile(filename, 'r') as zf: zf.testzip()
\* except zipfile.BadZipFile: raise IOError(...); either way logged
r_ZipCheck ==
  /\ fn = "urlretrieve"
  /\ UNCHANGED frame
  /\ pc = "zipcheck"
  /\ \E w \in LogWriteOutcomes :
       /\ Logged(w)
       /\ IF LogDebug(w) # "none"
          THEN /\ LogRaise(w)
               /\ response' = Closed(response)
               /\ UNCHANGED result
          ELSE IF ZipOpens(fs) /\ TestZipRaises(fs) # "none"
               THEN /\ r_except(Exc(TestZipRaises(fs), "error while decompressing data", "testzip"))
                    /\ response' = Closed(response)
                    /\ UNCHANGED result
               ELSE IF ZipCheckPasses(fs)
                    THEN r_return
                    ELSE /\ r_except(Exc("OSError", MsgNotZip, "zip"))
                         /\ response' = Closed(response)
                         /\ UNCHANGED result
  /\ UNCHANGED <<fn, max_retries, attempt, filename, expected_size,
                 downloaded_size, fs, f_open, attempts_made>>

\* time.sleep(wait_time) returns.
r_Wake ==
  /\ fn = "urlretrieve"
  /\ UNCHANGED frame
  /\ pc = "sleep"
  /\ pc' = "cleanup"
  /\ UNCHANGED <<fn, max_retries, attempt, filename, response, expected_size,
                 downloaded_size, fs, f_open, error, raised, result, sleeps,
                 printed, attempts_made, log_failed>>

\* if os.path.exists(filename): os.remove(filename); then the next iteration.
r_Cleanup ==
  /\ fn = "urlretrieve"
  /\ UNCHANGED frame
  /\ pc = "cleanup"
  /\ fs' = RemoveIfExists(fs)
  /\ attempt' = NextAttempt(attempt)
  /\ pc' = IF InRange(NextAttempt(attempt), max_retries) THEN "attempt" ELSE "returned"
  /\ response' = [NoResponse EXCEPT !.open = response.open]
  /\ expected_size' = NonePy
  /\ downloaded_size' = 0
  /\ UNCHANGED <<fn, max_retries, filename, f_open, error, raised, result,
                 sleeps, printed, attempts_made, log_failed>>

-----------------------------------------------------------------------------
(* The caller goes on after the primitive returned or raised: its locals are *)
(* gone, the destination file stays.                                        *)

Leave ==
  /\ fn # "none"
  /\ pc \in {"returned", "raised"}
  /\ fn' = "none"
  /\ pc' = "idle"
  /\ max_retries' = 0
  /\ attempt' = 0
  /\ filename' = <<>>
  /\ response' = NoResponse
  /\ expected_size' = NonePy
  /\ downloaded_size' = 0
  /\ f_open' = FALSE
  /\ error' = NoError
  /\ raised' = NoError
  /\ result' = NonePy
  /\ sleeps' = <<>>
  /\ printed' = <<>>
  /\ attempts_made' = 0
  /\ fs0' = NoFile
  /\ log_failed' = FALSE

Done ==
  /\ Leave
  /\ UNCHANGED <<fs, svars>>

Next ==
  \/ \E n \in -1..MaxRetries : o_Call(n)
  \/ o_Attempt
  \/ o_Wake
  \/ \E name \in Filenames, n \in -1..MaxRetries : r_Call(name, n)
  \/ r_Connect
  \/ r_Headers
  \/ r_OpenFile
  \/ r_Read
  \/ r_Verify
  \/ r_ZipCheck
  \/ r_Wake
  \/ r_Cleanup
  \/ Done

Spec == Init /\ [][Next]_vars

-----------------------------------------------------------------------------
(* The artifact scripts: download_extension, download_ollama,              *)
(* download_vscodium, download_rust_toolchain.  A run starts in a fresh    *)
(* output directory and ends in sys.exit or at the end of the script.      *)

Scripts == {"extension", "ollama", "vscodium", "rust"}

\* max_retries=3 at every call the scripts make
ScriptRetries == 3

\* time.sleep(10) before the second VSIX download
RateLimitWait == 10

\* f.read(500)
HtmlProbe == 500

\* len(sha256_hash) > 100
MaxDigestText == 100

NameDeb == <<"c", ".", "d", "e", "b">>
NameDebSha == <<"c", ".", "d", "e", "b", ".", "s", "h", "a", "2", "5", "6">>
NameRustup == <<"r", "u", "s", "t", "u", "p", "-", "i", "n", "i", "t">>
NameShaSum == <<"s", "h", "a", "2", "5", "6", "s", "u", "m", ".", "t", "x", "t">>

\* the destination of the primary artifact
PrimaryName(s) ==
  CASE s = "extension" -> NameVsix
    [] s = "ollama" -> NameTgz
    [] s = "vscodium" -> NameDeb
    [] s = "rust" -> NameRustup

\* the destination of the companion checksum artifact
CompanionName(s) == IF s = "ollama" THEN NameShaSum ELSE NameDebSha

\* The scripts that ask the Connector for release metadata first.
HasMetadata(s) == s \in {"extension", "ollama", "vscodium"}

\* with urlopen_with_retry(...) as response: the handle is closed on leaving
\* the block, however it is left.
ClosedByWith(s, h) == s = "extension" /\ h = "metadata"

\* response.read() with no argument reads to the end of the body, and the
\* response releases its connection there.
ClosedAtEOF(h) == TRUE

\* Text received from the registry's sha256 endpoint: the characters it
\* starts with, its length, the white space at its end, and whether what is
\* between the white space is a hex digest.
Ws == {" ", "\n"}

Doctype == <<"<", "!", "D", "O", "C", "T", "Y", "P", "E">>
HtmlTag == <<"<", "h", "t", "m", "l">>

ShaTexts ==
  { [s |-> <<"9", "f", "8", "6">>, len |-> 64, tail |-> 0, hex |-> TRUE],
    [s |-> <<"9", "f", "8", "6">>, len |-> 65, tail |-> 1, hex |-> TRUE],
    [s |-> Doctype \o <<" ", "h", "t", "m", "l", ">">>, len |-> 90, tail |-> 0, hex |-> FALSE],
    [s |-> <<"\n">> \o HtmlTag \o <<">">>, len |-> 2000, tail |-> 1, hex |-> FALSE],
    [s |-> <<"{", "e", "r", "r", "o", "r", "}">>, len |-> 150, tail |-> 0, hex |-> FALSE],
    [s |-> <<"N", "o", "t", " ", "F", "o", "u", "n", "d">>, len |-> 9, tail |-> 0, hex |-> FALSE],
    [s |-> <<"\n">>, len |-> 1, tail |-> 1, hex |-> FALSE],
    [s |-> <<>>, len |-> 0, tail |-> 0, hex |-> FALSE] }

RECURSIVE LStrip(_)
LStrip(t) ==
  IF t.s # <<>> /\ Head(t.s) \in Ws
  THEN LStrip([t EXCEPT !.s = Tail(@), !.len = @ - 1,
                        !.tail = IF t.len = t.tail THEN @ - 1 ELSE @])
  ELSE t

\* str.strip()
Strip(t) == LET l == LStrip(t) IN [l EXCEPT !.len = @ - l.tail, !.tail = 0]

\* str.startswith(prefix)
StartsWith(s, prefix) ==
  /\ Len(s) >= Len(prefix)
  /\ SubSeq(s, 1, Len(prefix)) = prefix

\* sha256_hash.startswith("<!DOCTYPE") or sha256_hash.startswith("<html")
\* or len(sha256_hash) > 100
ComputesOwnDigest(t) ==
  \/ StartsWith(t.s, Doctype)
  \/ StartsWith(t.s, HtmlTag)
  \/ t.len > MaxDigestText

\* hashlib.sha256(...).hexdigest() of a file's content
Sha256Of(file) == [src |-> "computed", of |-> file.body, hex |-> TRUE]

\* the digest a published text is taken to be
Published(t) == [src |-> "published", of |-> t, hex |-> t.hex]

\* write_text(f"{digest}  {name}\n")
SidecarLine(d, name) == [exists |-> TRUE, digest |-> d, name |-> name]

\* Mutant: any file that failed the archive check is taken for an error page.
HasHtmlMarkupAlways(file) == file.exists

\* "<!DOCTYPE html>" in content or "<html" in content, content being the
\* first 500 characters of the file
HasHtmlMarkup(file) ==
  /\ file.exists
  /\ file.body.kind = "html"
  /\ Min(file.written, HtmlProbe) > 0

\* "not a valid ZIP archive" in str(e)
IsNotZipError(e) == e.msg = MsgNotZip

\* except IOError as e
ScriptCatchesIOError(e) == Caught(e.cls, {"IOError"})

\* How the call of urlretrieve_with_retry that just ended went.
Outcome == [attempts |-> attempts_made, raised |-> raised]

\* A run begins: nothing held, nothing fetched, nothing written.
s_Start(s) ==
  /\ script = "none"
  /\ fn = "none"
  /\ script' = s
  /\ spc' = IF HasMetadata(s) THEN "metadata" ELSE "primary"
  /\ held' = {}
  /\ calls' = <<>>
  /\ outcomes' = <<>>
  /\ first_error' = NoError
  /\ reported' = NoError
  /\ waits' = <<>>
  /\ artifact' = NoFile
  /\ release' = [checksums |-> FALSE, listing |-> <<>>]
  /\ sidecar' = NoSidecar
  /\ exit_status' = 0
  /\ fs' = NoFile
  /\ UNCHANGED <<fn, pc, max_retries, attempt, filename, response,
                 expected_size, downloaded_size, f_open, error, raised, result,
                 sleeps, printed, attempts_made, fs0, log_failed>>

\* Mutant: the handlers at the end of the script swallow the failure.
ExitQuietly(e) ==
  /\ reported' = e
  /\ exit_status' = 0
  /\ spc' = "exited"

\* An exception reaches the handlers at the end of the script: sys.exit(1).
Exit1(e) ==
  /\ reported' = e
  /\ exit_status' = 1
  /\ spc' = "exited"

\* The end of the script is reached.
Exit0 ==
  /\ exit_status' = 0
  /\ spc' = "exited"
  /\ UNCHANGED reported

\* response = urlopen_with_retry(api, max_retries=3, timeout=30)
s_Metadata ==
  /\ spc = "metadata"
  /\ Enter("urlopen", ScriptRetries)
  /\ spc' = "metadata_wait"
  /\ UNCHANGED <<filename, fs, script, held, calls, first_error, reported,
                 waits, artifact, release, sidecar, exit_status>>
  /\ UNCHANGED outcomes

\* The Connector returned or raised.
s_MetadataDone ==
  /\ spc = "metadata_wait"
  /\ pc \in {"returned", "raised"}
  /\ Leave
  /\ IF pc = "returned"
     THEN /\ held' = held \cup {"metadata"}
          /\ spc' = "metadata_read"
          /\ UNCHANGED <<reported, exit_status>>
     ELSE /\ Exit1(raised)
          /\ UNCHANGED held
  /\ UNCHANGED <<fs, script, calls, first_error, waits, artifact, release,
                 sidecar>>
  /\ UNCHANGED outcomes

\* response.read().decode("utf-8"), json.loads, the choice of the assets
s_ReadMetadata ==
  /\ spc = "metadata_read"
  /\ \/ \E c \in ReadErrors :
          /\ held' = IF ClosedByWith(script, "metadata") THEN held \ {"metadata"} ELSE held
          /\ Exit1(Exc(c, "read failed", "metadata"))
          /\ UNCHANGED release
     \/ /\ held' = IF ClosedAtEOF("metadata") \/ ClosedByWith(script, "metadata")
                   THEN held \ {"metadata"} ELSE held
        /\ \/ /\ Exit1(Exc("ValueError", "unusable metadata", "metadata"))
              /\ UNCHANGED release
           \/ \E c \in BOOLEAN :
                /\ script = "ollama" \/ c = (script = "vscodium")
                /\ release' = [checksums |-> c, listing |-> <<>>]
                /\ spc' = "primary"
                /\ UNCHANGED <<reported, exit_status>>
  /\ UNCHANGED <<fn, pc, max_retries, attempt, filename, response,
                 expected_size, downloaded_size, fs, f_open, error, raised,
                 result, sleeps, printed, attempts_made, fs0, log_failed,
                 script, calls, first_error, waits, artifact, sidecar>>
  /\ UNCHANGED outcomes

\* urlretrieve_with_retry(url, str(outdir/name), max_retries=3, ...)
s_Primary ==
  /\ spc = "primary"
  /\ Enter("urlretrieve", ScriptRetries)
  /\ filename' = PrimaryName(script)
  /\ calls' = Append(calls, "primary")
  /\ spc' = "primary_wait"
  /\ UNCHANGED <<fs, script, held, first_error, reported, waits, artifact,
                 release, sidecar, exit_status>>
  /\ UNCHANGED outcomes

\* What follows a successful download of the primary artifact.
AfterPrimary(s, r) ==
  CASE s = "extension" -> "sha_request"
    [] s = "ollama" -> IF r.checksums THEN "companion" ELSE "sidecar"
    [] s = "vscodium" -> "companion"
    [] s = "rust" -> "exited"

\* The Fetcher returned or raised for the first download of the primary
\* artifact; in download_extension the except IOError block up to the call
\* of time.sleep(10).
s_PrimaryDone ==
  /\ spc = "primary_wait"
  /\ pc \in {"returned", "raised"}
  /\ Leave
  /\ IF pc = "returned"
     THEN /\ artifact' = fs
          /\ fs' = IF AfterPrimary(script, release) = "companion" THEN NoFile ELSE fs
          /\ spc' = AfterPrimary(script, release)
          /\ exit_status' = 0
          /\ UNCHANGED <<first_error, reported, waits>>
     ELSE /\ UNCHANGED <<artifact, fs>>
          /\ IF script = "extension" /\ ScriptCatchesIOError(raised)
             THEN /\ first_error' = raised
                  /\ IF IsNotZipError(raised) /\ HasHtmlMarkup(fs)
                     THEN /\ waits' = Append(waits, RateLimitWait)
                          /\ spc' = "rate_limit_wait"
                          /\ UNCHANGED <<reported, exit_status>>
                     ELSE /\ Exit1(raised)
                          /\ UNCHANGED waits
             ELSE /\ Exit1(raised)
                  /\ UNCHANGED <<first_error, waits>>
  /\ UNCHANGED <<script, held, calls, release, sidecar>>
  /\ outcomes' = Append(outcomes, Outcome)

\* time.sleep(10) returns; the second urlretrieve_with_retry for the VSIX.
s_SecondPrimary ==
  /\ spc = "rate_limit_wait"
  /\ Enter("urlretrieve", ScriptRetries)
  /\ filename' = PrimaryName(script)
  /\ calls' = Append(calls, "primary")
  /\ spc' = "second_wait"
  /\ UNCHANGED <<fs, script, held, first_error, reported, waits, artifact,
                 release, sidecar, exit_status>>
  /\ UNCHANGED outcomes

\* Mutant: the error of the second call is the one reported.
ReraisedAfterSecondOwn(first, second) == second

\* except Exception: raise e, where e is the error of the first call
ReraisedAfterSecond(first, second) == first

\* The second call returned, or raised: except Exception: raise e.
s_SecondDone ==
  /\ spc = "second_wait"
  /\ pc \in {"returned", "raised"}
  /\ Leave
  /\ IF pc = "returned"
     THEN /\ artifact' = fs
          /\ spc' = "sha_request"
          /\ UNCHANGED <<reported, exit_status>>
     ELSE /\ Exit1(ReraisedAfterSecond(first_error, raised))
          /\ UNCHANGED artifact
  /\ UNCHANGED <<fs, script, held, calls, first_error, waits, release,
                 sidecar>>
  /\ outcomes' = Append(outcomes, Outcome)

\* download_extension: urlopen_with_retry(sha256_url, max_retries=3, timeout=30)
s_ShaRequest ==
  /\ spc = "sha_request"
  /\ Enter("urlopen", ScriptRetries)
  /\ spc' = "sha_wait"
  /\ UNCHANGED <<filename, fs, script, held, calls, first_error, reported,
                 waits, artifact, release, sidecar, exit_status>>
  /\ UNCHANGED outcomes

s_ShaRequestDone ==
  /\ spc = "sha_wait"
  /\ pc \in {"returned", "raised"}
  /\ Leave
  /\ IF pc = "returned"
     THEN /\ held' = held \cup {"sha256"}
          /\ spc' = "sha_read"
          /\ UNCHANGED <<reported, exit_status>>
     ELSE /\ Exit1(raised)
          /\ UNCHANGED held
  /\ UNCHANGED <<fs, script, calls, first_error, waits, artifact, release,
                 sidecar>>
  /\ UNCHANGED outcomes

\* .read().decode("utf-8"), strip, the choice of the digest, write_text
s_ShaRead ==
  /\ spc = "sha_read"
  /\ \/ \E c \in ReadErrors :
          /\ held' = IF ClosedByWith(script, "sha256") THEN held \ {"sha256"} ELSE held
          /\ Exit1(Exc(c, "read failed", "sha256"))
          /\ UNCHANGED sidecar
     \/ \E t \in ShaTexts :
          /\ held' = IF ClosedAtEOF("sha256") THEN held \ {"sha256"} ELSE held
          /\ sidecar' = SidecarLine(IF ComputesOwnDigest(Strip(t))
                                    THEN Sha256Of(artifact)
                                    ELSE Published(Strip(t)),
                                    PrimaryName(script))
          /\ Exit0
  /\ UNCHANGED <<fn, pc, max_retries, attempt, filename, response,
                 expected_size, downloaded_size, fs, f_open, error, raised,
                 result, sleeps, printed, attempts_made, fs0, log_failed,
                 script, calls, first_error, waits, artifact, release>>
  /\ UNCHANGED outcomes

\* The companion checksum artifact: sha256sum.txt, <deb>.sha256
s_Companion ==
  /\ spc = "companion"
  /\ Enter("urlretrieve", ScriptRetries)
  /\ filename' = CompanionName(script)
  /\ calls' = Append(calls, "companion")
  /\ spc' = "companion_wait"
  /\ UNCHANGED <<fs, script, held, first_error, reported, waits, artifact,
                 release, sidecar, exit_status>>
  /\ UNCHANGED outcomes

\* Lines of a sha256sum.txt as line.strip().split() sees them: a digest and a
\* file name, or fewer fields.
DigestA == <<"a", "1">>
DigestB == <<"b", "2">>
NameOther == <<"q", ".", "t", "g", "z">>
NameTgzAsc == NameTgz \o <<".", "a", "s", "c">>

ShaSumListings ==
  { << <<DigestA, NameTgz>> >>,
    << <<DigestB, NameOther>>, <<DigestA, <<"*">> \o NameTgz>> >>,
    << <<DigestB, NameOther>> >>,
    << <<DigestB, NameTgzAsc>>, <<DigestA, NameTgz>> >>,
    << <<DigestB, NameTgzAsc>> >>,
    << <<NameTgz>> >>,
    << >> }

\* sub in s
Contains(sub, s) ==
  \E i \in 0..(Len(s) - Len(sub)) : SubSeq(s, i + 1, i + Len(sub)) = sub

\* if target_name in line: parts = line.strip().split();
\* if len(parts) >= 2 and target_name in parts[1]
LineMatches(parts, target) ==
  /\ \E k \in DOMAIN parts : Contains(target, parts[k])
  /\ Len(parts) >= 2
  /\ Contains(target, parts[2])

\* for line in f: ... break  -- the first line that matches, 0 for the else
\* branch of the loop
RECURSIVE FirstMatch(_, _, _)
FirstMatch(listing, target, i) ==
  IF i > Len(listing) THEN 0
  ELSE IF LineMatches(listing[i], target) THEN i
  ELSE FirstMatch(listing, target, i + 1)

\* official_hash = parts[0], written as it stands; the file it was listed for
PublishedLine(parts) ==
  [src |-> "published", of |-> parts[2], text |-> parts[1], hex |-> TRUE]

\* download_vscodium ends with the companion download; download_ollama looks
\* for the asset's line in sha256sum.txt and, without one or after a failed
\* download, computes the digest itself.
s_CompanionDone ==
  /\ spc = "companion_wait"
  /\ pc \in {"returned", "raised"}
  /\ Leave
  /\ IF script = "vscodium"
     THEN /\ IF pc = "returned" THEN Exit0 ELSE Exit1(raised)
          /\ UNCHANGED <<sidecar, fs, release>>
     ELSE /\ Exit0
          /\ IF pc = "returned"
             THEN \E listing \in ShaSumListings :
                    LET i == FirstMatch(listing, PrimaryName(script), 1) IN
                      /\ release' = [release EXCEPT !.listing = listing]
                      /\ sidecar' = SidecarLine(IF i > 0
                                                THEN PublishedLine(listing[i])
                                                ELSE Sha256Of(artifact),
                                                PrimaryName(script))
                      /\ fs' = IF i > 0 THEN NoFile ELSE fs
             ELSE /\ sidecar' = SidecarLine(Sha256Of(artifact), PrimaryName(script))
                  /\ UNCHANGED <<fs, release>>
  /\ UNCHANGED <<script, held, calls, first_error, waits, artifact>>
  /\ outcomes' = Append(outcomes, Outcome)

\* download_ollama without sha256sum.txt in the release
s_Sidecar ==
  /\ spc = "sidecar"
  /\ sidecar' = SidecarLine(Sha256Of(artifact), PrimaryName(script))
  /\ Exit0
  /\ UNCHANGED <<fn, pc, max_retries, attempt, filename, response,
                 expected_size, downloaded_size, fs, f_open, error, raised,
                 result, sleeps, printed, attempts_made, fs0, log_failed,
                 script, held, calls, first_error, waits, artifact, release>>
  /\ UNCHANGED outcomes

ScriptNext ==
  \/ \E s \in Scripts : s_Start(s)
  \/ s_Metadata
  \/ s_MetadataDone
  \/ s_ReadMetadata
  \/ s_Primary
  \/ s_PrimaryDone
  \/ s_SecondPrimary
  \/ s_SecondDone
  \/ s_ShaRequest
  \/ s_ShaRequestDone
  \/ s_ShaRead
  \/ s_Companion
  \/ s_CompanionDone
  \/ s_Sidecar
  \/ o_Attempt
  \/ o_Wake
  \/ r_Connect
  \/ r_Headers
  \/ r_OpenFile
  \/ r_Read
  \/ r_Verify
  \/ r_ZipCheck
  \/ r_Wake
  \/ r_Cleanup

ScriptSpec == Init /\ [][ScriptNext]_vars

-----------------------------------------------------------------------------
(* Properties *)

RECURSIVE SumSeq(_)
SumSeq(s) == IF s = <<>> THEN 0 ELSE s[1] + SumSeq(Tail(s))

\* 2^1 + 2^2 + ... + 2^k
RECURSIVE SumPow(_)
SumPow(k) == IF k <= 0 THEN 0 ELSE 2 ^ k + SumPow(k - 1)

\* The classes the contract calls retryable: network-level errors, timeouts
\* and generic I/O errors (the integrity failures are I/O errors).
RetryableClasses == {"URLError", "TimeoutError", "OSError"}

\* The call ended by raising after its last attempt failed with a retryable error.
Exhausted == fn # "none" /\ pc = "raised" /\ error.cls \in RetryableClasses

ErrorLinePrinted ==
  \E i \in 1..Len(printed) : printed[i].line = "ERROR: all attempts failed"

\* A successful return of the Fetcher (one attempt ran to its return).
FetcherSucceeded == fn = "urlretrieve" /\ pc = "returned" /\ attempts_made >= 1

\* The file is a ZIP container whose central directory can be read.
ValidArchive(file) ==
  /\ file.exists
  /\ file.written = file.body.size
  /\ file.body.kind \in {"zip_ok", "zip_corrupt"}

ArchiveName(name) == name \in {NameVsix, NameZip}

\* C1: in both primitives, when every attempt fails with a retryable error,
\* exactly max_retries attempts are made before the call raises; the sleep
\* after the k-th failure is 2^k, there is a sleep only while k < max_retries,
\* and the total slept is 2^1 + ... + 2^(max_retries - 1).
C1_ExhaustionAfterNAttempts ==
  fn # "none" =>
    /\ \A k \in 1..Len(sleeps) : sleeps[k] = 2 ^ k
    /\ pc = "sleep" => attempt < max_retries /\ Len(sleeps) = attempt
    /\ Exhausted =>
         /\ attempts_made = max_retries
         /\ attempt = max_retries
         /\ Len(sleeps) = max_retries - 1
         /\ SumSeq(sleeps) = SumPow(max_retries - 1)

C1_Witness ==
  /\ fn = "urlretrieve"
  /\ pc = "raised"
  /\ error.cls = "URLError"
  /\ max_retries = 4
  /\ attempts_made = 4
  /\ sleeps = <<2, 4, 8>>

\* C2: on exhaustion the error that leaves the primitive is the error of the
\* final failed attempt itself, and a call whose last attempt failed never
\* returns normally.
C2_LastErrorUnchanged ==
  fn # "none" =>
    /\ pc = "raised" => raised = error /\ raised # NoError /\ error.at = attempt
    /\ Exhausted => raised.at = max_retries
    /\ error # NoError => pc # "returned"

C2_Witness ==
  /\ fn = "urlopen"
  /\ pc = "raised"
  /\ max_retries = 3
  /\ attempts_made = 3
  /\ raised = [cls |-> "TimeoutError", msg |-> "connection failed", at |-> 3,
               where |-> "connect"]
  /\ sleeps = <<2, 4>>

\* C3: on every successful return of the Fetcher, the bytes written equal the
\* declared Content-Length when one was declared (0 included), and are
\* non-zero when none was declared.
C3_WrittenEqualsDeclared ==
  FetcherSucceeded =>
    /\ IsNumeric(response.cl.s) => fs.written = ParseInt(response.cl.s)
    /\ response.cl = NonePy => fs.written # 0

\* C4: an attempt of the Fetcher whose body delivered zero bytes is never a
\* success: it fails at the checks after the stream, and is retried or, on
\* the last attempt, raised.
C4_ZeroBytesNeverSuccess ==
  /\ [](FetcherSucceeded => response.body.size # 0 /\ downloaded_size # 0)
  /\ [][(fn = "urlretrieve" /\ pc = "verify" /\ downloaded_size = 0) =>
          /\ error'.where = "verify"
          /\ error'.at = attempt
          /\ \/ pc' = "sleep" /\ attempt < max_retries
             \/ pc' = "raised" /\ attempt = max_retries /\ raised' = error']_vars

C4_Witness ==
  /\ fn = "urlretrieve"
  /\ pc = "sleep"
  /\ error.where = "verify"
  /\ response.body.size = 0
  /\ response.cl = StrPy(<<"0">>)

\* C5: with a destination name ending in .vsix or .zip the Fetcher returns
\* success only when the written file is a structurally valid archive; a file
\* that is not fails the attempt with the not-a-valid-archive error, after
\* the size check has passed.
C5_InvalidArchiveNeverSuccess ==
  /\ (FetcherSucceeded /\ ArchiveName(filename)) => ValidArchive(fs)
  /\ (fn = "urlretrieve" /\ pc \in {"sleep", "raised"} /\ error.where = "zip") =>
       /\ error.msg = MsgNotZip
       /\ ArchiveName(filename)
       /\ ~ValidArchive(fs)
       /\ downloaded_size # 0
       /\ (IsNumeric(response.cl.s) /\ ParseInt(response.cl.s) # 0) =>
            downloaded_size = ParseInt(response.cl.s)
  /\ (fn = "urlretrieve" /\ pc = "zipcheck") =>
       (ArchiveName(filename) /\ fs.written = downloaded_size)

C5_Witness ==
  /\ fn = "urlretrieve"
  /\ pc = "raised"
  /\ filename = NameVsix
  /\ response.cl = StrPy(Str200)
  /\ response.body = [size |-> 200, kind |-> "html"]
  /\ downloaded_size = 200
  /\ error.msg = MsgNotZip

\* The failures the contract of C6 calls retryable: a network, timeout or I/O
\* error while connecting, and an integrity failure.
RetryableByContract(e) ==
  \/ e.where = "connect" /\ e.cls \in RetryableClasses
  \/ e.where \in {"verify", "zip"}

AbortedAtOnce ==
  /\ pc = "raised"
  /\ raised = error
  /\ attempts_made = error.at
  /\ Len(sleeps) = error.at - 1

\* C6 (as stated): in the Fetcher every failure that is neither a connection-
\* time network/timeout/I-O error nor an integrity failure, a permission-
\* denied error on opening the destination in particular, aborts the call on
\* its first occurrence: no further attempt and no sleep follow it.
C6_OtherFailuresAbort ==
  (fn = "urlretrieve" /\ error # NoError /\ ~RetryableByContract(error)) =>
    AbortedAtOnce

OSErrorClasses == {"OSError", "URLError", "TimeoutError", "PermissionError"}

\* C6 (amended): in the Fetcher a failure whose class is not an OSError
\* (a value error, a protocol exception of the HTTP client) aborts the call on
\* its first occurrence, wherever it arises: no further attempt, no sleep, no
\* exhaustion message.  Every OSError, the permission-denied error on opening
\* the destination and an I/O error while reading the body included, is
\* retried while attempts remain.
C6_NonOSErrorsAbort ==
  fn = "urlretrieve" =>
    /\ (error # NoError /\ error.cls \notin OSErrorClasses) =>
         (AbortedAtOnce /\ ~ErrorLinePrinted)
    /\ (error.cls \in OSErrorClasses /\ error.at < max_retries) =>
         /\ pc \in {"sleep", "cleanup", "attempt"}
         /\ Len(sleeps) = error.at
         /\ raised = NoError

C6_Witness ==
  /\ fn = "urlretrieve"
  /\ pc = "sleep"
  /\ error.cls = "PermissionError"
  /\ error.where = "open"
  /\ error.at = 1
  /\ sleeps = <<2>>

\* C7: in the Connector only network-level errors, timeouts and generic I/O
\* errors are retried; a failure of another class on attempt k leaves the
\* call at once, with k attempts made, no sleep after it and no exhaustion
\* message.
C7_ConnectorRetriesOnlyRetryable ==
  fn = "urlopen" =>
    /\ pc = "sleep" => error.cls \in RetryableClasses
    /\ pc = "raised" => Len(sleeps) = error.at - 1
    /\ (error # NoError /\ error.cls \notin RetryableClasses) =>
         (AbortedAtOnce /\ ~ErrorLinePrinted)

C7_Witness ==
  /\ fn = "urlopen"
  /\ pc = "raised"
  /\ raised.cls = "ValueError"
  /\ raised.at = 2
  /\ attempts_made = 2
  /\ max_retries = 4
  /\ sleeps = <<2>>

\* C8: when an attempt of the Fetcher after a failed one begins, no file
\* exists at the destination path.
C8_NoFileAtNextAttempt ==
  (fn = "urlretrieve" /\ pc = "attempt" /\ attempt > 1) => ~fs.exists

C8_Witness ==
  /\ fn = "urlretrieve"
  /\ pc = "attempt"
  /\ attempt = 2
  /\ error.msg = MsgIncomplete
  /\ error.at = 1
  /\ ~fs.exists

\* C9: during the backoff sleep between two attempts of the Fetcher no file
\* exists at the destination path (the file of the failed attempt is deleted
\* before the sleep).
C9_NoFileDuringSleep ==
  (fn = "urlretrieve" /\ pc = "sleep") => ~fs.exists

DownloadOutcome(bytes, declared, valid) ==
  [t |-> "DownloadOutcome", bytes_written |-> bytes, declared_size |-> declared,
   validated |-> valid]

\* C10 (as stated): every successful call of the Fetcher returns a
\* DownloadOutcome with the bytes written, the declared size and validated =
\* true.
C10_ReturnsDownloadOutcome ==
  FetcherSucceeded =>
    result = DownloadOutcome(fs.written, expected_size,
                             ArchiveName(filename) => ValidArchive(fs))

\* C10 (amended): every successful call of the Fetcher returns no value
\* (None); at that return the bytes written are non-zero, equal the declared
\* size when a non-zero size was declared, and the archive check has passed
\* or the destination required none.
C10_ReturnsNoneAfterChecks ==
  FetcherSucceeded =>
    /\ result = NonePy
    /\ fs.written = downloaded_size
    /\ downloaded_size # 0
    /\ (IsNumeric(response.cl.s) /\ ParseInt(response.cl.s) # 0) =>
         downloaded_size = ParseInt(response.cl.s)
    /\ ArchiveName(filename) => ValidArchive(fs)

C10_Witness ==
  /\ FetcherSucceeded
  /\ filename = NameTgz
  /\ response.cl = StrPy(Str1000)
  /\ response.body = [size |-> 1000, kind |-> "data"]
  /\ fs.written = 1000
  /\ result = NonePy

\* C11: one call of the Fetcher with max_retries = n opens at most n
\* connections (none when n is not positive): every iteration opens exactly
\* one, and a failed connection uses up exactly one iteration (there is no
\* retry budget below the Fetcher's).
C11_AtMostNConnections ==
  fn = "urlretrieve" =>
    /\ attempts_made <= Budget(max_retries)
    /\ pc = "attempt" => attempts_made = attempt - 1
    /\ pc \in {"headers", "open", "stream", "verify", "zipcheck", "sleep",
               "cleanup", "raised"} => attempts_made = attempt
    /\ (error.where = "connect" /\ pc \in {"sleep", "cleanup", "raised"}) =>
         (attempts_made = error.at /\ Len(sleeps) \in {error.at - 1, error.at})

C11_Witness ==
  /\ fn = "urlretrieve"
  /\ pc = "raised"
  /\ error.where = "connect"
  /\ max_retries = 3
  /\ attempts_made = 3
  /\ sleeps = <<2, 4>>

\* C12: after a successful call of the Fetcher the destination file holds
\* exactly the bytes the successful attempt streamed, whatever file was at the
\* path before the call and whatever earlier failed attempts wrote; so a
\* second successful retrieval of the same body leaves the file as the first
\* one left it.
C12_SuccessOverwrites ==
  FetcherSucceeded =>
    /\ fs = [exists |-> TRUE, body |-> response.body,
             written |-> response.body.size]
    /\ (fs0.exists /\ fs0.body = response.body /\ fs0.written = fs0.body.size) =>
         fs = fs0

C12_Witness ==
  /\ FetcherSucceeded
  /\ attempt = 2
  /\ fs0.exists
  /\ fs0.written > 0
  /\ fs0.body # response.body
  /\ fs.body = response.body
  /\ fs.written = 1000

\* C15 (as stated): a zero-byte attempt of the Fetcher records the empty-
\* download failure whatever was declared, and the incomplete-download
\* failure is recorded only for a non-zero byte count that differs from the
\* declared one.
C15_ZeroBytesIsEmptyFailure ==
  (fn = "urlretrieve" /\ pc \in {"sleep", "raised"} /\ error.where = "verify") =>
    /\ downloaded_size = 0 => error.msg = MsgEmpty
    /\ error.msg = MsgIncomplete => downloaded_size # 0

DeclaredNonZero == IsNumeric(response.cl.s) /\ ParseInt(response.cl.s) # 0

\* C15 (amended): a zero-byte attempt of the Fetcher records the empty-
\* download failure when no size, an empty one or a size of 0 was declared,
\* and the incomplete-download failure when a non-zero size was declared; the
\* incomplete-download failure is recorded for every byte count, zero
\* included, that differs from a declared non-zero size.
C15_ZeroBytesFailureByDeclaration ==
  (fn = "urlretrieve" /\ pc \in {"sleep", "raised"} /\ error.where = "verify") =>
    /\ error.msg \in {MsgEmpty, MsgIncomplete}
    /\ error.msg = MsgEmpty <=> (downloaded_size = 0 /\ ~DeclaredNonZero)
    /\ error.msg = MsgIncomplete <=>
         (DeclaredNonZero /\ downloaded_size # ParseInt(response.cl.s))

C15_Witness ==
  /\ fn = "urlretrieve"
  /\ pc = "sleep"
  /\ error.msg = MsgIncomplete
  /\ downloaded_size = 0
  /\ response.cl = StrPy(Str200)

\* C18: within one call of the Fetcher the attempts are strictly sequential:
\* when an attempt is about to open its connection, the connection and the
\* destination file handle of the attempt before it are closed and the
\* backoff 2^k of that attempt k has been slept; and a successful attempt k
\* returns with exactly k attempts made and no sleep after it.
C18_AttemptsSequential ==
  fn = "urlretrieve" =>
    /\ pc = "attempt" =>
         /\ ~response.open /\ ~f_open
         /\ Len(sleeps) = attempt - 1
         /\ attempt > 1 => sleeps[attempt - 1] = 2 ^ (attempt - 1)
    /\ pc \in {"sleep", "cleanup", "raised", "returned"} => (~response.open /\ ~f_open)
    /\ f_open => response.open
    /\ FetcherSucceeded =>
         (attempts_made = attempt /\ Len(sleeps) = attempt - 1 /\ error = NoError)

C18_Witness ==
  /\ fn = "urlretrieve"
  /\ pc = "stream"
  /\ attempt = 3
  /\ response.open
  /\ f_open
  /\ sleeps = <<2, 4>>

\* C19: when the Fetcher raises to its caller it removes nothing: the file its
\* last attempt wrote is still at the destination path; a file at the path
\* is removed only in the cleanup of a failed attempt that is followed by
\* another one.
C19_NoCleanupOnRaise ==
  /\ []((fn = "urlretrieve" /\ pc = "raised" /\ error.where \in {"read", "verify", "zip"}) =>
          (fs.exists /\ fs.body = response.body /\ fs.written = downloaded_size))
  /\ []((fn = "urlretrieve" /\ pc = "raised" /\ error.where \in {"connect", "headers", "open"}) =>
          fs = IF attempt = 1 THEN fs0 ELSE NoFile)
  /\ [][(fs.exists /\ ~fs'.exists) =>
          (fn = "urlretrieve" /\ pc = "cleanup" /\ pc' = "attempt"
           /\ attempt < max_retries)]_vars

C19_Witness ==
  /\ fn = "urlretrieve"
  /\ pc = "raised"
  /\ max_retries = 3
  /\ attempt = 3
  /\ error.msg = MsgIncomplete
  /\ response.cl = StrPy(Str500)
  /\ fs.exists
  /\ fs.written = 480

\* C20: after a failed attempt of the Fetcher with attempts remaining the
\* file at the destination path is removed, also one that was there before the
\* call and that the failed attempt never opened (it failed while
\* connecting); when the only attempt fails while connecting, the file that
\* was there is left as it was, and when the final attempt of several fails
\* while connecting nothing is at the path to change.
C20_PreexistingFileRemovedOnRetry ==
  fn = "urlretrieve" =>
    /\ (pc = "attempt" /\ attempt > 1) => ~fs.exists
    /\ (pc \in {"sleep", "cleanup", "raised"} /\ error.where = "connect" /\ attempt = 1) =>
         fs = fs0
    /\ (pc = "raised" /\ error.where = "connect" /\ attempt > 1) => ~fs.exists

C20_Witness ==
  /\ fn = "urlretrieve"
  /\ pc = "attempt"
  /\ attempt = 2
  /\ error.where = "connect"
  /\ fs0.exists
  /\ ~fs.exists

\* C14: a failed write of the debug trace never changes the outcome of a
\* Connector or Fetcher call: no error the call records or raises comes from
\* log_debug, a call in which a write failed still raises only what an attempt
\* raised, and it sleeps and counts its attempts as a call whose writes all
\* succeeded.
C14_LogFailureNeverAborts ==
  /\ error.where # "log"
  /\ raised.where # "log"
  /\ (log_failed /\ pc = "raised") =>
       /\ raised = error
       /\ error.where \in {"connect", "headers", "open", "read", "verify", "zip",
                          "testzip"}
       /\ attempts_made = error.at
  /\ (log_failed /\ pc \in {"sleep", "cleanup"}) =>
       /\ error.at = attempt
       /\ Len(sleeps) = attempt
       /\ sleeps[attempt] = Backoff(attempt)
  /\ (log_failed /\ fn = "urlretrieve" /\ pc = "returned" /\ attempts_made >= 1) =>
       /\ error = NoError
       /\ Complete(fs)

C14_Witness ==
  /\ log_failed
  /\ FetcherSucceeded
  /\ Len(sleeps) >= 1

-----------------------------------------------------------------------------
(* Properties of the artifact scripts, under ScriptSpec *)

\* The calls of urlretrieve_with_retry a run has made for a purpose.
CallsFor(purpose) == Cardinality({i \in DOMAIN calls : calls[i] = purpose})

\* C13: every response handle is closed by its owner on every exit path: the
\* handle of a Fetcher attempt is closed when the attempt is over, and a
\* script that has ended holds no open handle it received from the Connector.
C13_HandlesClosedByOwner ==
  /\ (fn = "urlretrieve" /\ pc \in {"attempt", "sleep", "cleanup", "returned", "raised"}) =>
       ~response.open
  /\ spc = "exited" => held = {}

\* C16: each artifact script calls the Fetcher exactly once for its primary
\* artifact and at most once more for a companion checksum artifact: never
\* twice for the primary artifact, and once in every run that ends normally.
C16_PrimaryFetchedOnce ==
  /\ CallsFor("primary") <= 1
  /\ CallsFor("companion") <= 1
  /\ (spc = "exited" /\ exit_status = 0) => CallsFor("primary") = 1

\* C16 (amended): every script but download_extension calls the Fetcher at
\* most once for its primary artifact, download_extension at most twice, the
\* second time only after the first call failed with the not-a-valid-archive
\* error, left an HTML page at the destination and the script waited 10; a
\* run that ends normally has fetched the primary artifact; the companion
\* checksum artifact is fetched at most once, and only by download_ollama and
\* download_vscodium.
C16_PrimaryFetchedOnceOrTwice ==
  /\ script # "extension" => CallsFor("primary") <= 1
  /\ script = "extension" => CallsFor("primary") <= 2
  /\ CallsFor("companion") <= 1
  /\ script \in {"extension", "rust"} => CallsFor("companion") = 0
  /\ (spc = "exited" /\ exit_status = 0) => CallsFor("primary") >= 1
  /\ spc = "rate_limit_wait" =>
       /\ script = "extension"
       /\ calls = <<"primary">>
       /\ first_error.msg = MsgNotZip
       /\ fs.exists /\ fs.body.kind = "html"
       /\ waits = <<RateLimitWait>>
  /\ CallsFor("primary") = 2 =>
       /\ first_error.msg = MsgNotZip
       /\ waits = <<RateLimitWait>>
       /\ spc \in {"second_wait", "sha_request", "sha_wait", "sha_read", "exited"}

C16_Witness ==
  /\ script = "extension"
  /\ spc = "exited"
  /\ exit_status = 0
  /\ CallsFor("primary") = 2
  /\ sidecar.exists

\* C17: in download_extension the sidecar is written only after the VSIX was
\* downloaded, names the VSIX, and holds a hex digest: the published one, or
\* the SHA-256 of the downloaded file whenever the registry's text is not a
\* digest.
C17_SidecarHoldsDigest ==
  (script = "extension" /\ sidecar.exists) =>
    /\ Complete(artifact)
    /\ sidecar.name = NameVsix
    /\ sidecar.digest.hex
    /\ sidecar.digest.src = "computed" => sidecar.digest.of = artifact.body

\* C21: with max_retries <= 0 neither primitive makes an attempt: the call
\* returns normally at once, None for both, without a response handle, a
\* connection, a sleep, a message or a change of the destination file, and
\* nothing is raised.
C21_NoAttemptWithoutBudget ==
  (fn # "none" /\ max_retries <= 0) =>
    /\ pc = "returned"
    /\ attempts_made = 0
    /\ result = NonePy
    /\ response = NoResponse
    /\ ~f_open
    /\ fs = fs0
    /\ error = NoError
    /\ raised = NoError
    /\ sleeps = <<>>
    /\ printed = <<>>

C21_Witness ==
  /\ fn = "urlretrieve"
  /\ max_retries = -1
  /\ pc = "returned"
  /\ fs0.exists
  /\ fs = fs0
  /\ log_failed

\* C22: the archive check of the Fetcher fails an attempt only when opening
\* or testing the archive raises the bad-archive error, and an archive that
\* opens but whose member test reports a corrupt member is accepted.
C22_OnlyBadArchiveFails ==
  (fn = "urlretrieve" /\ pc \in {"sleep", "raised"}
     /\ error.where \in {"zip", "testzip"}) =>
    /\ error.msg = MsgNotZip
    /\ ~ZipOpens(fs)

\* C22 (amended): an attempt fails with the not-a-valid-archive error only
\* when the file does not open as an archive; when the archive opens and the
\* member test raises a decompression error, that error ends the whole call at
\* once, unretried, with the file left in place; when the archive opens and
\* the member test reports a corrupt member, the attempt is a success.
C22_ArchiveCheckOutcomes ==
  fn = "urlretrieve" =>
    /\ (pc \in {"sleep", "raised"} /\ error.where = "zip") =>
         /\ error.msg = MsgNotZip
         /\ fs.body.kind \notin {"zip_ok", "zip_corrupt", "zip_garbled"}
    /\ error.where = "testzip" =>
         /\ pc = "raised"
         /\ raised = error
         /\ error.cls = "ZlibError"
         /\ fs.body.kind = "zip_garbled"
         /\ Complete(fs)
         /\ attempts_made = attempt
         /\ Len(sleeps) = attempt - 1
    /\ (pc = "returned" /\ attempts_made >= 1 /\ NeedsZipCheck(filename)) =>
         /\ Complete(fs)
         /\ fs.body.kind \in {"zip_ok", "zip_corrupt"}
    /\ error.where \in {"zip", "testzip"} => fs.body.kind # "zip_corrupt"

C22_Witness ==
  /\ fn = "urlretrieve"
  /\ pc = "returned"
  /\ filename = NameVsix
  /\ attempt = 2
  /\ fs.body.kind = "zip_corrupt"
  /\ TestZip(fs) # NonePy
  /\ result = NonePy

\* Attempts made by the calls for a purpose that have ended.
RECURSIVE AttemptsIn(_, _)
AttemptsIn(purpose, i) ==
  IF i = 0 THEN 0
  ELSE AttemptsIn(purpose, i - 1)
         + (IF calls[i] = purpose THEN outcomes[i].attempts ELSE 0)

\* VSIX download attempts of the run so far, those of a call under way included.
VsixAttempts ==
  AttemptsIn("primary", Len(outcomes))
    + (IF spc \in {"primary_wait", "second_wait"} THEN attempts_made ELSE 0)

\* C23: download_extension calls the Fetcher a second time for the VSIX only
\* when the first call failed on its last attempt with the not-a-valid-archive
\* error and left a file with HTML markup at its start, and only after a wait
\* of 10; after any other failure of the first call that call's error is what
\* the run reports; a run makes at most 6 VSIX download attempts; when the
\* second call fails as well the run reports the error of the first.
C23_SecondFetchAfterHtmlOnly ==
  script = "extension" =>
    /\ VsixAttempts <= 2 * ScriptRetries
    /\ Len(outcomes) <= Len(calls)
    /\ Len(calls) = 2 =>
         /\ outcomes # <<>>
         /\ outcomes[1].raised = first_error
         /\ first_error.msg = MsgNotZip
         /\ first_error.where = "zip"
         /\ first_error.at = ScriptRetries
         /\ outcomes[1].attempts = ScriptRetries
         /\ waits = <<RateLimitWait>>
    /\ spc = "rate_limit_wait" =>
         /\ fs.exists
         /\ fs.body.kind = "html"
         /\ fs.written > 0
         /\ waits = <<RateLimitWait>>
    /\ Len(calls) < 2 => (waits = <<>> \/ spc = "rate_limit_wait")
    /\ (spc = "exited" /\ Len(outcomes) = 1 /\ outcomes[1].raised # NoError) =>
         /\ reported = outcomes[1].raised
         /\ exit_status = 1
         /\ ~(outcomes[1].raised.msg = MsgNotZip /\ fs.body.kind = "html")
    /\ (spc = "exited" /\ Len(outcomes) = 2 /\ outcomes[2].raised # NoError) =>
         /\ reported = outcomes[1].raised
         /\ exit_status = 1

C23_Witness ==
  /\ script = "extension"
  /\ spc = "exited"
  /\ exit_status = 1
  /\ Len(outcomes) = 2
  /\ VsixAttempts = 6
  /\ outcomes[2].raised.where = "connect"
  /\ reported.msg = MsgNotZip
  /\ waits = <<RateLimitWait>>

\* The calls for the primary artifact that have ended.
PrimaryEnded == {i \in 1..Len(outcomes) : calls[i] = "primary"}

\* The last of them.
LastPrimary == CHOOSE i \in PrimaryEnded : \A j \in PrimaryEnded : j <= i

\* C24: a script ends with exit status 0 only if the Fetcher call for its
\* primary artifact returned; whenever the Connector call for the metadata or
\* a Fetcher call for the primary artifact fails terminally, the script ends
\* with exit status 1 and no checksum sidecar is written.
C24_TerminalFailureExits1 ==
  spc = "exited" =>
    /\ exit_status = 0 =>
         \E i \in PrimaryEnded : outcomes[i].raised = NoError
    /\ (calls = <<>> \/ \E i \in PrimaryEnded : outcomes[i].raised # NoError) =>
         /\ exit_status = 1
         /\ ~sidecar.exists

\* C24 (amended): a script ends with exit status 0 only if its last Fetcher
\* call for the primary artifact returned; when the Connector call for the
\* metadata fails, or the last Fetcher call for the primary artifact fails,
\* the script ends with exit status 1 and writes no sidecar; a failed call for
\* the primary artifact is followed by another one only in
\* download_extension, after the not-a-valid-archive error, and the run then
\* ends as that second call decides.
C24_LastPrimaryCallDecides ==
  /\ spc = "exited" =>
       /\ exit_status \in {0, 1}
       /\ exit_status = 0 =>
            /\ PrimaryEnded # {}
            /\ outcomes[LastPrimary].raised = NoError
            /\ Complete(artifact)
            /\ reported = NoError
       /\ (calls = <<>> \/ (PrimaryEnded # {} /\ outcomes[LastPrimary].raised # NoError)) =>
            /\ exit_status = 1
            /\ ~sidecar.exists
            /\ ~artifact.exists
            /\ reported # NoError
            /\ CallsFor("companion") = 0
  /\ \A i \in PrimaryEnded :
       (outcomes[i].raised # NoError /\ i # LastPrimary) =>
         /\ script = "extension"
         /\ i = 1
         /\ LastPrimary = 2
         /\ outcomes[i].raised.msg = MsgNotZip

C24_Witness ==
  /\ script = "ollama"
  /\ spc = "exited"
  /\ exit_status = 1
  /\ calls = <<"primary">>
  /\ outcomes[1].attempts = ScriptRetries
  /\ outcomes[1].raised.msg = MsgIncomplete
  /\ reported = outcomes[1].raised
  /\ ~sidecar.exists

\* A line of sha256sum.txt that lists the file: its digest and its name, the
\* name possibly marked as binary.
EntryFor(parts, target) ==
  /\ Len(parts) >= 2
  /\ parts[2] \in {target, <<"*">> \o target}

\* C25: whenever download_ollama completes normally the sidecar of the
\* selected asset exists and names the asset; it holds the published digest
\* of the asset when sha256sum.txt was fetched and lists the asset, and
\* otherwise the SHA-256 of the downloaded archive; once the archive is
\* downloaded, a failed download of sha256sum.txt does not make the run fail.
C25_OllamaSidecarDigest ==
  (script = "ollama" /\ spc = "exited") =>
    /\ exit_status = 0 =>
         /\ sidecar.exists
         /\ sidecar.name = PrimaryName("ollama")
         /\ sidecar.digest.hex
         /\ IF \E i \in DOMAIN release.listing :
                 EntryFor(release.listing[i], PrimaryName("ollama"))
            THEN /\ sidecar.digest.src = "published"
                 /\ EntryFor(<<sidecar.digest.text, sidecar.digest.of>>, PrimaryName("ollama"))
            ELSE sidecar.digest = Sha256Of(artifact)
    /\ (outcomes # <<>> /\ outcomes[1].raised = NoError) => exit_status = 0

====
